---- MODULE Spec2Model ----
(***************************************************************************)
(* State-machine model of the user-api Flask service (src/app.py).         *)
(*                                                                         *)
(* The users table lives in a SQLite file shared by every request.  Each   *)
(* handler opens its own connection, runs one or two statements, commits   *)
(* and closes.  Requests are served by worker threads, so the statements   *)
(* of different requests interleave; a handler is therefore modelled as    *)
(* one action per storage statement.  SQLite gives one writer at a time:   *)
(* the first write statement of a connection takes the write lock and      *)
(* keeps it until that connection commits or is closed.  A waiting writer  *)
(* is modelled as blocked (the driver's busy timeout is not reached).      *)
(***************************************************************************)
EXTENDS Integers, Sequences, FiniteSets, TLC

\* ------------------------------------------------------------------ bounds
MaxRequests == 2        \* requests issued in one behaviour
MaxClock == 1           \* value the wall clock can reach

\* --------------------------------------------------------------- constants
Slots == {1, 2}         \* worker threads serving requests at the same time
Null == "<null>"        \* JSON null / Python None / SQL NULL
NoHolder == << "free" >>        \* write lock not held
Orphan == << "orphan" >>        \* held by a connection its handler left open
Worker(r) == << "worker", r >>  \* held by the connection of the handler in r

\* Seed rows of init_db (username, email, full_name).
sample_users ==
    << [username |-> "john_doe",   email |-> "john@example.com", full_name |-> "John Doe"],
       [username |-> "jane_smith", email |-> "jane@example.com", full_name |-> "Jane Smith"],
       [username |-> "bob_wilson", email |-> "bob@example.com",  full_name |-> "Bob Wilson"] >>

VARIABLES
    table,      \* committed rows of the users table
    seq,        \* sqlite_sequence entry of the users table (AUTOINCREMENT)
    lock,       \* holder of the SQLite write lock
    openConns,  \* connections opened by get_db_connection and not closed
    now,        \* CURRENT_TIMESTAMP / utcnow
    req,        \* per worker: the request it serves and the handler's position
    issued,     \* number of requests received so far
    order,      \* workers, the one that took a request longest ago first
    assigned,   \* history: every id the table has ever handed out
    deletedOK,  \* history: ids for which a DELETE request returned 200
    origin      \* history: id and body of each create, until an update or
                \* delete statement targets the id

vars == << table, seq, lock, openConns, now, req, issued, order, assigned, deletedOK,
          origin >>

\* ----------------------------------------------------------- JSON envelope
Json(kind, obj) == [kind |-> kind, obj |-> obj]
NoBody == Json("null", << >>)           \* get_json() returned None
Scalar == Json("number", << >>)         \* a JSON body that is no object, e.g. 5
Obj(o) == Json("object", o)

Response(status, body) == [status |-> status, body |-> body]
Failure(status, msg) == Response(status, [success |-> FALSE, error |-> msg])

NoResponse == Response(0, << >>)

\* dict.get(key) of a parsed JSON object: None when the key is absent.
Get(data, key) == IF key \in DOMAIN data.obj THEN data.obj[key] ELSE Null
\* dict.get(key, default)
GetOr(data, key, default) == IF key \in DOMAIN data.obj THEN data.obj[key] ELSE default

\* Python truthiness of a request body: None and {} are falsy.
Falsy(data) == data.kind = "null" \/ (data.kind = "object" /\ DOMAIN data.obj = {})
\* Python truthiness of a string-or-None value.
Empty(v) == v = Null \/ v = ""

\* ------------------------------------------------------------ SQL helpers
RowById(rows, uid) == {u \in rows : u.id = uid}

MaxOf(S) == IF S = {} THEN 0 ELSE CHOOSE m \in S : \A x \in S : x <= m

\* Faulty variant of NextRowId: the rowid of a table declared without
\* AUTOINCREMENT, one more than the largest live rowid.
NextRowIdNoAutoincrement(rows, s) == MaxOf({u.id : u \in rows}) + 1
\* rowid chosen by INSERT on an AUTOINCREMENT table: one more than the
\* largest rowid the table ever held (s is its sqlite_sequence entry).
NextRowId(rows, s) == MaxOf({u.id : u \in rows} \cup {s}) + 1

\* Faulty variant of IntegrityViolated: email declared without UNIQUE.
UniqueOnlyUsername(rows) ==
    \/ \E u \in rows : u.username = Null \/ u.email = Null
    \/ \E u, v \in rows : u.id # v.id /\ u.username = v.username
\* UNIQUE(username), UNIQUE(email) and NOT NULL on both, over a row set.
IntegrityViolated(rows) ==
    \/ \E u \in rows : u.username = Null \/ u.email = Null
    \/ \E u, v \in rows : u.id # v.id /\ (u.username = v.username \/ u.email = v.email)

\* Faulty variant of InsertedRow: data.get('full_name') without the default.
InsertedRowNoDefault(uid, data, ts) ==
    [id |-> uid,
     username |-> data.obj["username"],
     email |-> data.obj["email"],
     full_name |-> Get(data, "full_name"),
     created_at |-> ts,
     updated_at |-> ts]
\* Row built by INSERT INTO users (username, email, full_name) VALUES (?,?,?)
\* with data['username'], data['email'], data.get('full_name', ''); the
\* timestamps default to CURRENT_TIMESTAMP.
InsertedRow(uid, data, ts) ==
    [id |-> uid,
     username |-> data.obj["username"],
     email |-> data.obj["email"],
     full_name |-> GetOr(data, "full_name", ""),
     created_at |-> ts,
     updated_at |-> ts]

\* Faulty variant of UpdatedRows: the UPDATE also stamps created_at.
UpdatedRowsTouchCreated(rows, uid, data, ts) ==
    { IF u.id = uid
        THEN [u EXCEPT !.username = GetOr(data, "username", @),
                       !.email = GetOr(data, "email", @),
                       !.full_name = GetOr(data, "full_name", @),
                       !.created_at = ts,
                       !.updated_at = ts]
        ELSE u : u \in rows }
\* Row set after UPDATE users SET <fields present in data>, updated_at =
\* CURRENT_TIMESTAMP WHERE id = uid.
UpdatedRows(rows, uid, data, ts) ==
    { IF u.id = uid
        THEN [u EXCEPT !.username = GetOr(data, "username", @),
                       !.email = GetOr(data, "email", @),
                       !.full_name = GetOr(data, "full_name", @),
                       !.updated_at = ts]
        ELSE u : u \in rows }

\* Faulty variant of DeletedRows: the DELETE is never committed.
DeletedRowsNotCommitted(rows, uid) == rows
\* Row set after DELETE FROM users WHERE id = uid, once committed.
DeletedRows(rows, uid) == rows \ RowById(rows, uid)

\* SELECT * FROM users ORDER BY created_at DESC (ties in rowid order).
RECURSIVE OrderByCreatedDesc(_)
OrderByCreatedDesc(rows) ==
    IF rows = {} THEN << >>
    ELSE LET first == CHOOSE u \in rows : \A v \in rows :
                          \/ v.created_at < u.created_at
                          \/ (v.created_at = u.created_at /\ u.id <= v.id)
         IN  << first >> \o OrderByCreatedDesc(rows \ {first})

\* The 'user' object of GET /users/<id>: the six columns of the row.
UserJson(u) ==
    [id |-> u.id, username |-> u.username, email |-> u.email,
     full_name |-> u.full_name, created_at |-> u.created_at,
     updated_at |-> u.updated_at]

\* ------------------------------------------------------- request bookkeeping
Idle ==
    [pc |-> "idle", op |-> "none", uid |-> 0, data |-> NoBody, resp |-> NoResponse,
     ts |-> 0, newid |-> 0]

InFlight(r) == req[r].pc \notin {"idle", "done"}
\* The handler serving r holds a connection it has opened and not yet closed.
HasConn(r) == req[r].pc \in {"insert", "update", "delete", "commit"}
\* Connections left open by handlers that have already returned.
Orphans == openConns - Cardinality({r \in Slots : HasConn(r)})

\* A request goes to a worker that is not serving one; workers being
\* interchangeable, it is the one whose last request is the oldest.
Accept(r) ==
    /\ issued < MaxRequests
    /\ ~InFlight(r)
    /\ \E i \in 1..Len(order) :
          /\ order[i] = r
          /\ \A j \in 1..(i - 1) : InFlight(order[j])
    /\ issued' = issued + 1
    /\ order' = SelectSeq(order, LAMBDA s : s # r) \o << r >>

\* The request as the router hands it to its handler.
Received(op, uid, data) == [Idle EXCEPT !.op = op, !.uid = uid, !.data = data]

\* The handler returns resp; its locals are gone.
Done(rec, resp) == [rec EXCEPT !.pc = "done", !.resp = resp, !.ts = 0, !.newid = 0]

\* Faulty variant of WriteLockFree: writers are not serialised.
WriteLockIgnored(l) == TRUE
\* SQLite admits one write transaction at a time.
WriteLockFree(l) == l = NoHolder

\* --------------------------------------------------------------- responses
\* Faulty variant of CreateInvalid: tests the keys, not their values.
CreateInvalidKeysOnly(data) ==
    Falsy(data) \/ "username" \notin DOMAIN data.obj \/ "email" \notin DOMAIN data.obj
\* not data or not data.get('username') or not data.get('email')
CreateInvalid(data) ==
    Falsy(data) \/ Empty(Get(data, "username")) \/ Empty(Get(data, "email"))

CreateConflict == Failure(409, "Username or email already exists")

UserNotFound == Failure(404, "User not found")

\* --------------------------------------------------------------------- Init
\* The state init_db leaves behind on a new database file: the three sample
\* rows with ids 1..3, stamped with the clock of that moment.
Init ==
    /\ table = { [id |-> i,
                  username |-> sample_users[i].username,
                  email |-> sample_users[i].email,
                  full_name |-> sample_users[i].full_name,
                  created_at |-> 0,
                  updated_at |-> 0] : i \in 1..Len(sample_users) }
    /\ seq = Len(sample_users)
    /\ lock = NoHolder
    /\ openConns = 0
    /\ now = 0
    /\ req = [r \in Slots |-> Idle]
    /\ issued = 0
    /\ order = << 1, 2 >>
    /\ assigned = 1..Len(sample_users)
    /\ deletedOK = {}
    /\ origin = {}

\* ------------------------------------------------------------- GET /health
Health(r) ==
    /\ Accept(r)
    /\ req' = [req EXCEPT ![r] = Done(Received("health", 0, NoBody),
                 Response(200, [status |-> "healthy", service |-> "user-api",
                                timestamp |-> now, version |-> "1.0.0"]))]
    /\ UNCHANGED << table, seq, lock, openConns, now, assigned, deletedOK, origin >>

\* ------------------------------------------------- unmatched route (404)
NotFound(r) ==
    /\ Accept(r)
    /\ req' = [req EXCEPT ![r] = Done(Received("unmatched", 0, NoBody),
                                      Failure(404, "Endpoint not found"))]
    /\ UNCHANGED << table, seq, lock, openConns, now, assigned, deletedOK, origin >>

\* -------------------------------------------------------------- GET /users
\* open, SELECT, close: the connection does not outlive the step.
GetUsers(r) ==
    /\ Accept(r)
    /\ req' = [req EXCEPT ![r] = Done(Received("list", 0, NoBody),
                 Response(200, [success |-> TRUE, count |-> Cardinality(table),
                                users |-> [i \in 1..Cardinality(table) |->
                                    UserJson(OrderByCreatedDesc(table)[i])]]))]
    /\ UNCHANGED << table, seq, lock, openConns, now, assigned, deletedOK, origin >>

\* --------------------------------------------------------- GET /users/<id>
GetUser(r, uid) ==
    /\ Accept(r)
    /\ LET found == RowById(table, uid)
           resp == IF found = {} THEN UserNotFound
                   ELSE Response(200, [success |-> TRUE,
                                       user |-> UserJson(CHOOSE u \in found : TRUE)])
       IN  req' = [req EXCEPT ![r] = Done(Received("get", uid, NoBody), resp)]
    /\ UNCHANGED << table, seq, lock, openConns, now, assigned, deletedOK, origin >>

\* ------------------------------------------------------------- POST /users
\* get_json, validation and get_db_connection.
CreateUser(r, data) ==
    /\ Accept(r)
    /\ LET rec == Received("create", 0, data) IN
       IF data.kind = "number"
         THEN \* data.get raises AttributeError: caught by 'except Exception'
              /\ req' = [req EXCEPT ![r] = Done(rec, Failure(500, "Failed to create user"))]
              /\ UNCHANGED openConns
         ELSE IF CreateInvalid(data)
           THEN /\ req' = [req EXCEPT ![r] =
                              Done(rec, Failure(400, "Username and email are required"))]
                /\ UNCHANGED openConns
           ELSE /\ req' = [req EXCEPT ![r] = [rec EXCEPT !.pc = "insert"]]
                /\ openConns' = openConns + 1
    /\ UNCHANGED << table, seq, lock, now, assigned, deletedOK, origin >>

\* cursor.execute(INSERT ...): opens the write transaction; a constraint
\* failure raises IntegrityError and the handler returns 409 without closing
\* the connection, whose transaction keeps the write lock.
CreateInsert(r) ==
    /\ req[r].pc = "insert"
    /\ WriteLockFree(lock)
    /\ LET uid == NextRowId(table, seq)
           row == InsertedRow(uid, req[r].data, now)
       IN  IF IntegrityViolated(table \cup {row})
             THEN /\ req' = [req EXCEPT ![r] = Done(@, CreateConflict)]
                  /\ lock' = Orphan
             ELSE /\ req' = [req EXCEPT ![r] = [@ EXCEPT !.pc = "commit", !.newid = uid,
                                                         !.ts = now]]
                  /\ lock' = Worker(r)
    /\ UNCHANGED << table, seq, openConns, now, issued, order, assigned, deletedOK, origin >>

\* lastrowid, conn.commit(), conn.close(), 201.
CreateCommit(r) ==
    /\ req[r].pc = "commit" /\ req[r].op = "create"
    /\ LET row == InsertedRow(req[r].newid, req[r].data, req[r].ts) IN
       /\ table' = table \cup {row}
       /\ origin' = origin \cup {[id |-> req[r].newid, data |-> req[r].data]}
    /\ seq' = req[r].newid
    /\ assigned' = assigned \cup {req[r].newid}
    /\ lock' = NoHolder
    /\ openConns' = openConns - 1
    /\ req' = [req EXCEPT ![r] = Done(@, Response(201,
                 [success |-> TRUE, message |-> "User created successfully",
                  user_id |-> req[r].newid]))]
    /\ UNCHANGED << now, issued, order, deletedOK >>

\* -------------------------------------------------------- PUT /users/<id>
\* get_json, the 'not data' test, get_db_connection, the existence SELECT and
\* the assembly of the SET list.
UpdateUser(r, uid, data) ==
    /\ Accept(r)
    /\ LET rec == Received("update", uid, data) IN
       IF Falsy(data)
         THEN /\ req' = [req EXCEPT ![r] = Done(rec, Failure(400, "No data provided"))]
              /\ UNCHANGED openConns
         ELSE IF RowById(table, uid) = {}
           THEN \* conn.close() before the 404
                /\ req' = [req EXCEPT ![r] = Done(rec, UserNotFound)]
                /\ UNCHANGED openConns
           ELSE IF data.kind = "number"
             THEN \* 'username' in data raises TypeError: 500, connection left open
                  /\ req' = [req EXCEPT ![r] = Done(rec, Failure(500, "Failed to update user"))]
                  /\ openConns' = openConns + 1
             ELSE /\ req' = [req EXCEPT ![r] = [rec EXCEPT !.pc = "update"]]
                  /\ openConns' = openConns + 1
    /\ UNCHANGED << table, seq, lock, now, assigned, deletedOK, origin >>

\* cursor.execute(UPDATE ...): IntegrityError leaves through the 409 branch,
\* which does not close the connection.
UpdateExec(r) ==
    /\ req[r].pc = "update"
    /\ WriteLockFree(lock)
    /\ IF IntegrityViolated(UpdatedRows(table, req[r].uid, req[r].data, now))
         THEN /\ req' = [req EXCEPT ![r] =
                            Done(@, Failure(409, "Username or email already exists"))]
              /\ lock' = Orphan
              /\ UNCHANGED origin
         ELSE /\ req' = [req EXCEPT ![r] = [@ EXCEPT !.pc = "commit", !.ts = now]]
              /\ lock' = Worker(r)
              /\ origin' = origin \ RowById(origin, req[r].uid)
    /\ UNCHANGED << table, seq, openConns, now, issued, order, assigned, deletedOK >>

\* conn.commit(), conn.close(), 200.
UpdateCommit(r) ==
    /\ req[r].pc = "commit" /\ req[r].op = "update"
    /\ table' = UpdatedRows(table, req[r].uid, req[r].data, req[r].ts)
    /\ lock' = NoHolder
    /\ openConns' = openConns - 1
    /\ req' = [req EXCEPT ![r] = Done(@, Response(200,
                 [success |-> TRUE, message |-> "User updated successfully"]))]
    /\ UNCHANGED << seq, now, issued, order, assigned, deletedOK, origin >>

\* ----------------------------------------------------- DELETE /users/<id>
\* get_db_connection and the existence SELECT.
DeleteUser(r, uid) ==
    /\ Accept(r)
    /\ LET rec == Received("delete", uid, NoBody) IN
       IF RowById(table, uid) = {}
         THEN /\ req' = [req EXCEPT ![r] = Done(rec, UserNotFound)]
              /\ UNCHANGED openConns
         ELSE /\ req' = [req EXCEPT ![r] = [rec EXCEPT !.pc = "delete"]]
              /\ openConns' = openConns + 1
    /\ UNCHANGED << table, seq, lock, now, assigned, deletedOK, origin >>

\* cursor.execute(DELETE ...)
DeleteExec(r) ==
    /\ req[r].pc = "delete"
    /\ WriteLockFree(lock)
    /\ lock' = Worker(r)
    /\ req' = [req EXCEPT ![r] = [@ EXCEPT !.pc = "commit"]]
    /\ origin' = origin \ RowById(origin, req[r].uid)
    /\ UNCHANGED << table, seq, openConns, now, issued, order, assigned, deletedOK >>

\* conn.commit(), conn.close(), 200.
DeleteCommit(r) ==
    /\ req[r].pc = "commit" /\ req[r].op = "delete"
    /\ table' = DeletedRows(table, req[r].uid)
    /\ lock' = NoHolder
    /\ openConns' = openConns - 1
    /\ deletedOK' = deletedOK \cup {req[r].uid}
    /\ req' = [req EXCEPT ![r] = Done(@, Response(200,
                 [success |-> TRUE, message |-> "User deleted successfully"]))]
    /\ UNCHANGED << seq, now, issued, order, assigned, origin >>

\* ------------------------------------------------------------- environment
\* The runtime finalizes a connection object whose handler returned without
\* closing it: its open transaction is rolled back and its lock released.
\* When this happens is up to the interpreter's memory management.
Finalize ==
    /\ Orphans > 0
    /\ openConns' = openConns - 1
    /\ \/ lock = Orphan /\ lock' = NoHolder
       \/ (lock # Orphan \/ Orphans > 1) /\ UNCHANGED lock
    /\ UNCHANGED << table, seq, now, req, issued, order, assigned, deletedOK, origin >>

\* The wall clock advances.
Tick ==
    /\ now < MaxClock
    /\ now' = now + 1
    /\ UNCHANGED << table, seq, lock, openConns, req, issued, order, assigned, deletedOK, origin >>

\* ------------------------------------------------------------------ inputs
\* Path ids: the newest seed row and the first id a create receives.
UserIds == {Len(sample_users), Len(sample_users) + 1}

Fields(u, e) == [username |-> u, email |-> e]
Named(u, e, f) == [username |-> u, email |-> e, full_name |-> f]

\* POST bodies: null, {}, a non-object, objects with missing, empty, new and
\* taken values.
CreateBodies ==
    { NoBody, Obj(<< >>), Scalar,
      Obj(Fields("alice", "alice@x.com")),
      Obj(Named("alice", "alice@x.com", "Alice A")),
      Obj(Fields("alice", "carol@x.com")),
      Obj(Fields("carol", "alice@x.com")),
      Obj(Fields("alice", "john@example.com")),
      Obj(Fields("", "alice@x.com")),
      Obj([username |-> "alice"]),
      Obj(Fields("carol", "")),
      Obj(Named("carol", "carol@x.com", Null)) }

\* PUT bodies: null, {}, a non-object, objects with any subset of the fields.
UpdateBodies ==
    { NoBody, Obj(<< >>), Scalar,
      Obj([full_name |-> "Alice A"]),
      Obj([username |-> "alice"]),
      Obj([email |-> "jane@example.com"]),
      Obj([username |-> ""]),
      Obj([email |-> Null]),
      Obj([created_at |-> "x"]),
      Obj(Fields("bob_wilson", "bob@example.com")) }

\* -------------------------------------------------------------------- Next
Next ==
    \/ \E r \in Slots : Health(r)
    \/ \E r \in Slots : NotFound(r)
    \/ \E r \in Slots : GetUsers(r)
    \/ \E r \in Slots, uid \in UserIds : GetUser(r, uid)
    \/ \E r \in Slots, data \in CreateBodies : CreateUser(r, data)
    \/ \E r \in Slots : CreateInsert(r)
    \/ \E r \in Slots : CreateCommit(r)
    \/ \E r \in Slots, uid \in UserIds, data \in UpdateBodies : UpdateUser(r, uid, data)
    \/ \E r \in Slots : UpdateExec(r)
    \/ \E r \in Slots : UpdateCommit(r)
    \/ \E r \in Slots, uid \in UserIds : DeleteUser(r, uid)
    \/ \E r \in Slots : DeleteExec(r)
    \/ \E r \in Slots : DeleteCommit(r)
    \/ Finalize
    \/ Tick

Spec == Init /\ [][Next]_vars

\* ================================================================== claims
Finished(r) == req[r].pc = "done"
Status(r) == req[r].resp.status
Ids(rows) == {u.id : u \in rows}

\* Step in which worker r takes a new request.
Accepts(r) == issued' = issued + 1 /\ order'[Len(order')] = r
\* Step in which the handler in r returns its response.
Returns(r) == req[r].pc \notin {"idle", "done"} /\ req'[r].pc = "done"
\* Step in which r's request gets its response, a one-step request included.
Responds(r) == Returns(r) \/ (Accepts(r) /\ req'[r].pc = "done")

\* C1: in every reachable state no two rows of the users table share a
\* username and no two rows share an email.
C1_UniqueUsernameEmail ==
    \A u, v \in table : u # v => u.username # v.username /\ u.email # v.email

\* C1 witness: a create was refused with 409 while a created row is live.
C1_Witness ==
    /\ \E r \in Slots : Finished(r) /\ req[r].op = "create" /\ Status(r) = 409
    /\ \E u \in table : u.id > Len(sample_users)

\* A finished create whose body passed validation.
ValidCreate(r) ==
    /\ Finished(r) /\ req[r].op = "create"
    /\ req[r].data.kind = "object"
    /\ ~Empty(Get(req[r].data, "username")) /\ ~Empty(Get(req[r].data, "email"))

CreatedId(r) == IF Status(r) = 201 THEN {req[r].resp.body.user_id} ELSE {}

\* The two latest requests are creates a, b carrying the same username or
\* the same email, and no row other than theirs holds a value of theirs.
SameValuePair(a, b) ==
    /\ a # b /\ ValidCreate(a) /\ ValidCreate(b)
    /\ \/ req[a].data.obj.username = req[b].data.obj.username
       \/ req[a].data.obj.email = req[b].data.obj.email
    /\ \A u \in table : u.id \notin (CreatedId(a) \cup CreatedId(b)) =>
          /\ u.username \notin {req[a].data.obj.username, req[b].data.obj.username}
          /\ u.email \notin {req[a].data.obj.email, req[b].data.obj.email}

\* C2: of two creates with the same new username (or email), run in sequence
\* or concurrently, exactly one returns 201 and the other 409, and exactly one
\* row with that username (or email) exists afterwards.
C2_OneCreateWins ==
    \A a, b \in Slots : SameValuePair(a, b) =>
        /\ {Status(a), Status(b)} = {201, 409}
        /\ req[a].data.obj.username = req[b].data.obj.username =>
              Cardinality({u \in table : u.username = req[a].data.obj.username}) = 1
        /\ req[a].data.obj.email = req[b].data.obj.email =>
              Cardinality({u \in table : u.email = req[a].data.obj.email}) = 1

\* C2 witness: two creates with the same new username and different emails
\* have finished, one with 201 and one with 409.
C2_Witness ==
    \E a, b \in Slots :
        /\ SameValuePair(a, b)
        /\ Status(a) = 201 /\ Status(b) = 409
        /\ req[a].data.obj.email # req[b].data.obj.email

\* Row u after a successful update of its id with body data.
UpdateFrame(u, v, data) ==
    /\ v.id = u.id
    /\ v.created_at = u.created_at
    /\ v.updated_at >= u.updated_at
    /\ \A f \in {"username", "email", "full_name"} :
          v[f] = IF f \in DOMAIN data.obj THEN data.obj[f] ELSE u[f]

\* C3: a successful update of id i changes in row i only the fields present
\* in the body, keeps id and created_at, moves updated_at to a value >= the
\* old one, and leaves every other row as it was.
C3_UpdateFrame ==
    [][\A r \in Slots :
          (Returns(r) /\ req[r].op = "update" /\ req'[r].resp.status = 200) =>
             /\ Cardinality(table') = Cardinality(table)
             /\ \A u \in table :
                   IF u.id = req[r].uid
                     THEN \E v \in table' : UpdateFrame(u, v, req[r].data)
                     ELSE u \in table']_vars

\* C3 witness: an update of full_name alone has returned 200 after the clock
\* moved; the row has the new full_name, its old username and a later
\* updated_at than created_at.
C3_Witness ==
    \E r \in Slots :
        /\ Finished(r) /\ req[r].op = "update" /\ Status(r) = 200
        /\ req[r].data = Obj([full_name |-> "Alice A"])
        /\ \E u \in table : /\ u.id = req[r].uid
                            /\ u.full_name = "Alice A"
                            /\ u.username = "bob_wilson"
                            /\ u.updated_at > u.created_at

\* No two finished deletes of the same id both returned 200.
AtMostOneDelete200 ==
    \A a, b \in Slots :
        (a # b /\ Finished(a) /\ Finished(b) /\ req[a].op = "delete" /\ req[b].op = "delete"
           /\ req[a].uid = req[b].uid) => ~(Status(a) = 200 /\ Status(b) = 200)

\* A delete that finds its id absent answers 404, and a get of an id whose
\* delete has returned 200 answers 404.
DeleteThenGet(r) ==
    /\ (Accepts(r) /\ req'[r].op = "delete" /\ RowById(table, req'[r].uid) = {})
          => (req'[r].pc = "done" /\ req'[r].resp.status = 404)
    /\ (Accepts(r) /\ req'[r].op = "get" /\ req'[r].uid \in deletedOK)
          => req'[r].resp.status = 404

\* C4 (as amended): a delete of an absent id yields 404, and after a delete
\* of id i has returned 200 every later get of i yields 404; two deletes of
\* the same id in flight together may both return 200.
C4_DeleteThenGet404 == [][\A r \in Slots : DeleteThenGet(r)]_vars

\* C4 (as claimed): the above, and of two deletes of the same id at most one
\* returns 200.
C4_AtMostOneDelete200 == [][(\A r \in Slots : DeleteThenGet(r)) /\ AtMostOneDelete200']_vars

\* C4 witness: a get of an id answered 404 after a delete of it returned 200.
C4_Witness ==
    \E r \in Slots :
        /\ Finished(r) /\ req[r].op = "get" /\ Status(r) = 404
        /\ req[r].uid \in deletedOK

\* full_name a create body stands for: the supplied one, "" when omitted.
SuppliedFullName(data) == IF "full_name" \in DOMAIN data.obj THEN data.obj.full_name ELSE ""

\* A create whose username and email are non-empty and held by no live row
\* passes validation, passes the INSERT and answers 201 with an integer id.
CreateSucceeds(r) ==
    /\ (Accepts(r) /\ req'[r].op = "create" /\ req'[r].data.kind = "object"
          /\ ~Empty(Get(req'[r].data, "username")) /\ ~Empty(Get(req'[r].data, "email")))
          => req'[r].pc = "insert"
    /\ (req[r].pc = "insert" /\ req'[r].pc # "insert"
          /\ \A u \in table : /\ u.username # req[r].data.obj.username
                              /\ u.email # req[r].data.obj.email)
          => req'[r].pc = "commit"
    /\ (Returns(r) /\ req[r].op = "create" /\ req[r].pc = "commit")
          => /\ req'[r].resp.status = 201
             /\ req'[r].resp.body.user_id \in Nat
             /\ req'[r].resp.body.user_id \in Ids(table')

\* A get of an id handed out by a create, with no update or delete statement
\* on that id since, answers 200 with the values the create carried.
GetReturnsCreated(r) ==
    (Accepts(r) /\ req'[r].op = "get") =>
        \A o \in origin : o.id = req'[r].uid =>
            /\ req'[r].resp.status = 200
            /\ req'[r].resp.body.user.id = o.id
            /\ req'[r].resp.body.user.username = o.data.obj.username
            /\ req'[r].resp.body.user.email = o.data.obj.email
            /\ req'[r].resp.body.user.full_name = SuppliedFullName(o.data)

\* C5: a create with non-empty username and email distinct from those of all
\* live rows returns 201 with an integer user_id, and a later get of that id
\* (no update or delete of it in between) returns 200 with the same username
\* and email and the supplied full_name, "" when it was omitted.
C5_CreateThenGet == [][\A r \in Slots : CreateSucceeds(r) /\ GetReturnsCreated(r)]_vars

\* C5 witness: a get has returned the row of a create that omitted full_name.
C5_Witness ==
    \E r \in Slots, o \in origin :
        /\ Finished(r) /\ req[r].op = "get" /\ Status(r) = 200
        /\ req[r].uid = o.id
        /\ "full_name" \notin DOMAIN o.data.obj
        /\ req[r].resp.body.user.full_name = ""

\* C6: the id a successful create returns was never assigned before (seed
\* rows and deleted rows included), and no update changes the id of a row.
C6_IdsNeverReused ==
    [][\A r \in Slots :
          /\ (Returns(r) /\ req[r].op = "create" /\ req'[r].resp.status = 201)
                => req'[r].resp.body.user_id \notin assigned
          /\ (Returns(r) /\ req[r].op = "update") => Ids(table') = Ids(table)]_vars

\* C6 witness: a create has returned the id after that of the newest row,
\* which had been deleted before.
C6_Witness ==
    \E r \in Slots :
        /\ Finished(r) /\ req[r].op = "create" /\ Status(r) = 201
        /\ \E d \in deletedOK : /\ d + 1 = req[r].resp.body.user_id
                                /\ d \notin Ids(table)

\* C7: whenever no request is in flight, every connection a handler opened
\* has been closed by it.
C7_ConnectionsClosed == (\A r \in Slots : ~InFlight(r)) => openConns = 0

\* The error messages of the service.
ErrorMessages ==
    { "Failed to fetch users", "User not found", "Failed to fetch user",
      "Username and email are required", "Username or email already exists",
      "Failed to create user", "No data provided", "Failed to update user",
      "Failed to delete user", "Endpoint not found", "Internal server error" }

\* C8: every response body has a boolean success, true exactly for status
\* 200 and 201, and with success false an error out of the fixed messages.
C8_Envelope ==
    \A r \in Slots : Finished(r) =>
        /\ "success" \in DOMAIN req[r].resp.body
        /\ req[r].resp.body.success \in BOOLEAN
        /\ req[r].resp.body.success <=> Status(r) \in {200, 201}
        /\ ~req[r].resp.body.success =>
              /\ "error" \in DOMAIN req[r].resp.body
              /\ req[r].resp.body.error \in ErrorMessages

\* The cases C9 names, each with the status it must get.
RejectedAsClaimed(r) ==
    /\ (Accepts(r) /\ req'[r].op = "create" /\ req'[r].data.kind # "number"
          /\ (Empty(Get(req'[r].data, "username")) \/ Empty(Get(req'[r].data, "email"))))
          => (req'[r].pc = "done" /\ req'[r].resp.status = 400)
    /\ (Accepts(r) /\ req'[r].op = "update"
          /\ (req'[r].data.kind = "null" \/ req'[r].data = Obj(<< >>)))
          => (req'[r].pc = "done" /\ req'[r].resp.status = 400)
    /\ (Accepts(r) /\ req'[r].op \in {"update", "delete"}
          /\ ~(req'[r].op = "update" /\ (req'[r].data.kind = "null" \/ req'[r].data = Obj(<< >>)))
          /\ req'[r].uid \notin Ids(table))
          => (req'[r].pc = "done" /\ req'[r].resp.status = 404)
    /\ (req[r].pc = "insert" /\ req'[r].pc # "insert"
          /\ \E u \in table : \/ u.username = req[r].data.obj.username
                              \/ u.email = req[r].data.obj.email)
          => (req'[r].pc = "done" /\ req'[r].resp.status = 409)
    /\ (req[r].pc = "update" /\ req'[r].pc # "update"
          /\ req[r].uid \in Ids(table)
          /\ \E u \in table : /\ u.id # req[r].uid
                              /\ \/ u.username = Get(req[r].data, "username")
                                 \/ u.email = Get(req[r].data, "email"))
          => (req'[r].pc = "done" /\ req'[r].resp.status = 409)

C10_NonEmptyUsernameEmail == \A u \in table : ~Empty(u.username) /\ ~Empty(u.email)

====
